---- MODULE Spec2Model ----
(***************************************************************************)
(* The dashboard of the media manager (DashboardPage, FileType): the file  *)
(* classifier, the fetch / upload / delete handlers and the folder view,   *)
(* against a document database (the 'files' collection) and an object      *)
(* store.  Every await of a handler is a step of its own: a backend call   *)
(* either takes effect and resolves, or has no effect and rejects.         *)
(***************************************************************************)
EXTENDS Integers, Sequences, FiniteSets, TLC

(* ---------------- bounds of the model ---------------- *)

\* files handed to handleUploadFiles over the whole run (all batches together)
MaxUploads == 2
\* confirmed calls of handleDeleteFile over the whole run
MaxDeletes == 2
\* fragments a probed content-type string is put together from
MaxFrags == 3

\* the files handed to handleUploadFiles in all, where users come and go
SessionUploads == 1

\* the confirmed calls of handleDeleteFile, where users come and go
SessionDeletes == 1

\* the DashboardPage instances mounted in all: one per sign-in
MaxInstances == 2

\* the identities the auth watcher delivers in all
MaxDeliveries == 3

(* ---------------- strings ---------------- *)
\* A content-type is a sequence of characters, so that startsWith, includes
\* and === are computed on the characters as String.prototype computes them.

Image == <<"i","m","a","g","e","/">>
Video == <<"v","i","d","e","o","/">>
Audio == <<"a","u","d","i","o","/">>
Text == <<"t","e","x","t","/">>
Pdf == <<"a","p","p","l","i","c","a","t","i","o","n","/","p","d","f">>
DocumentWord == <<"d","o","c","u","m","e","n","t">>

\* String.prototype.startsWith
startsWith(s, p) == Len(p) <= Len(s) /\ SubSeq(s, 1, Len(p)) = p

\* String.prototype.includes
includes(s, p) == \E i \in 1..(Len(s) - Len(p) + 1) : SubSeq(s, i, i + Len(p) - 1) = p

(* ---------------- types.ts ---------------- *)

\* Object.values(FileType), in declaration order
FileTypeValues == <<"Photos", "Videos", "Document", "Songs", "Others">>

FileType == {FileTypeValues[i] : i \in 1..Len(FileTypeValues)}

(* ---------------- the classifier ---------------- *)

\* a plausible slip: the Document test made before the audio test
getFileType_DocumentFirst(file) ==
    LET type == file.type IN
    IF startsWith(type, Image) THEN "Photos"
    ELSE IF startsWith(type, Video) THEN "Videos"
    ELSE IF type = Pdf \/ startsWith(type, Text) \/ includes(type, DocumentWord) THEN "Document"
    ELSE IF startsWith(type, Audio) THEN "Songs"
    ELSE "Others"

getFileType(file) ==
    LET type == file.type IN
    IF startsWith(type, Image) THEN "Photos"
    ELSE IF startsWith(type, Video) THEN "Videos"
    ELSE IF startsWith(type, Audio) THEN "Songs"
    ELSE IF type = Pdf \/ startsWith(type, Text) \/ includes(type, DocumentWord) THEN "Document"
    ELSE "Others"

(* ---------------- the session and the files a user can drop ---------------- *)

\* user.uid of the user signed in at the start
uid == "u1"

\* the uid of another account with files in the same collection
otherUid == "u2"

\* the file names of the model, in the order of String.prototype.localeCompare
Names == <<"a.txt", "photo.jpg">>

NameRank(name) == CHOOSE i \in 1..Len(Names) : Names[i] = name

\* a.name.localeCompare(b.name): negative, zero or positive
localeCompare(a, b) == NameRank(a) - NameRank(b)

\* the File objects of a drop or of the file picker: name, content-type, size
PhotoJpg == [name |-> "photo.jpg", type |-> Image \o <<"j","p","e","g">>, size |-> 2048]

ATxt == [name |-> "a.txt", type |-> Text \o <<"p","l","a","i","n">>, size |-> 7]

DroppedFiles == {PhotoJpg, ATxt}

\* the drops of 1..n files
FileLists(n) == UNION {[1..k -> DroppedFiles] : k \in 1..n}

(* ---------------- records, paths, addresses ---------------- *)

\* crypto.randomUUID(): the n-th identifier drawn; two draws never agree
randomUUID(n) == "uuid" \o ToString(n)

\* a plausible slip: the path built from the file name alone
storagePath_NameOnly(userId, fileId, name) == "files/" \o userId \o "/" \o name

\* `files/${user.uid}/${fileId}-${file.name}`
storagePath(userId, fileId, name) == "files/" \o userId \o "/" \o fileId \o "-" \o name

\* the address getDownloadURL resolves to for an object of the store
downloadURL(path) == "https://storage/" \o path

\* a plausible slip: the category left at its default instead of derived
newFileDoc_Unclassified(file, url, userId, path) ==
    [name |-> file.name, type |-> "Others", size |-> file.size,
     url |-> url, userId |-> userId, storagePath |-> path]

\* newFileDoc: Omit<ManagedFile, 'id'>
newFileDoc(file, url, userId, path) ==
    [name |-> file.name, type |-> getFileType(file), size |-> file.size,
     url |-> url, userId |-> userId, storagePath |-> path]

\* { ...doc.data(), id: doc.id }
WithId(data, id) ==
    [id |-> id, name |-> data.name, type |-> data.type, size |-> data.size,
     url |-> data.url, userId |-> data.userId, storagePath |-> data.storagePath]

(* ---------------- sequences ---------------- *)

Range(s) == {s[i] : i \in 1..Len(s)}

\* the documents of a query result come ordered by document id
RECURSIVE OrderById(_)
OrderById(docs) ==
    IF docs = {} THEN <<>>
    ELSE LET d == CHOOSE x \in docs : \A y \in docs : x.id <= y.id
         IN <<d>> \o OrderById(docs \ {d})

\* one insertion of a stable sort: x goes behind every element not greater than it
RECURSIVE Insert(_, _)
Insert(sorted, x) ==
    IF sorted = <<>> THEN <<x>>
    ELSE IF localeCompare(x.name, Head(sorted).name) < 0 THEN <<x>> \o sorted
    ELSE <<Head(sorted)>> \o Insert(Tail(sorted), x)

\* userFiles.sort((a, b) => a.name.localeCompare(b.name)): Array.prototype.sort is stable
RECURSIVE sort(_)
sort(s) == IF s = <<>> THEN <<>> ELSE Insert(sort(SubSeq(s, 1, Len(s) - 1)), s[Len(s)])

(* ---------------- state ---------------- *)

VARIABLES
    mounted,         \* the effect that calls fetchFiles on mount has run
    files,           \* useState<ManagedFile[]>([])
    isLoading,       \* useState(true)
    uploadingFiles,  \* useState<string[]>([])
    alert,           \* the text of the alert() the latest step raised, "" if none
    unhandled,       \* a promise of the application was rejected with no handler
    catalog,         \* the documents of the 'files' collection: [id, data]
    blobs,           \* the object store: path -> the File stored there
    nextDocId,       \* the next document id addDoc assigns
    nextUuid,        \* the number of the next crypto.randomUUID() draw
    fetches,         \* the calls of fetchFiles, in the order they started
    batches,         \* the calls of handleUploadFiles with a non-empty list
    deletes,         \* the confirmed calls of handleDeleteFile
    ctype,           \* a content-type string put to the classifier
    nfrags,          \* the number of fragments ctype was put together from
    label,           \* what getFileType answered for ctype
    user,            \* the identity App holds: the uid signed in, NoUser when signed out
    instance,        \* the number of the DashboardPage instance mounted last
    error,           \* the message the auth page shows under its form, "" if none
    loading,         \* App: useState(true), down from the first auth-state delivery on
    page,            \* App: useState<Page>('login')
    delivered,       \* the number of identities the auth watcher has delivered
    early            \* the early return the latest step took, "" if none

dashboard == <<mounted, files, isLoading, uploadingFiles, alert, unhandled>>

backend == <<catalog, blobs, nextDocId, nextUuid>>

calls == <<fetches, batches, deletes>>

probe == <<ctype, nfrags, label>>

session == <<user, instance, error, loading, page, delivered>>

vars == <<dashboard, backend, calls, probe, session, early>>

\* setUser(null): no user is signed in
NoUser == ""

Users == {uid, otherUid}

NoReturn == ""

\* useState<string | null>(null) of the auth pages
NoError == ""

LoginFailed == "Failed to sign in. Please check your email and password."

SignupFailed == "Failed to create an account. The email might already be in use."

ResetFailed == "Failed to send reset link. Please check the email address."

SignOutFailed == "Failed to sign out."

\* the message the form of an auth page shows when its backend call fails
FormError(p) ==
    IF p = "login" THEN LoginFailed
    ELSE IF p = "signup" THEN SignupFailed
    ELSE ResetFailed

\* if (filesToUpload.length === 0) return;
EmptyList == "filesToUpload.length === 0"

\* if (!window.confirm(...)) return;
NotConfirmed == "!window.confirm"

NoAlert == ""

FetchFailed == "Could not fetch your files."

UploadFailed(name) == "Failed to upload " \o name

DeleteFailed == "Failed to delete the file."

\* the File of the model's own earlier upload, a.txt of 5 bytes
EarlierATxt == [name |-> "a.txt", type |-> ATxt.type, size |-> 5]

\* the collection as earlier sessions left it: one file of this user, one of another
InitialCatalog ==
    { [id |-> 1,
       data |-> [name |-> "a.txt", type |-> "Document", size |-> 5,
                 url |-> downloadURL(storagePath(uid, randomUUID(1), "a.txt")),
                 userId |-> uid,
                 storagePath |-> storagePath(uid, randomUUID(1), "a.txt")]],
      [id |-> 2,
       data |-> [name |-> "photo.jpg", type |-> "Photos", size |-> 2048,
                 url |-> downloadURL(storagePath(otherUid, randomUUID(2), "photo.jpg")),
                 userId |-> otherUid,
                 storagePath |-> storagePath(otherUid, randomUUID(2), "photo.jpg")]] }

InitialBlobs ==
    [p \in {d.data.storagePath : d \in InitialCatalog} |->
        IF p = storagePath(uid, randomUUID(1), "a.txt") THEN EarlierATxt ELSE PhotoJpg]

Init ==
    /\ mounted = FALSE
    /\ files = <<>>
    /\ isLoading = TRUE
    /\ uploadingFiles = <<>>
    /\ alert = NoAlert
    /\ unhandled = FALSE
    /\ catalog = InitialCatalog
    /\ blobs = InitialBlobs
    /\ nextDocId = Cardinality(InitialCatalog) + 1
    /\ nextUuid = Cardinality(InitialCatalog) + 1
    /\ fetches = <<>>
    /\ batches = <<>>
    /\ deletes = <<>>
    /\ ctype = <<>>
    /\ nfrags = 0
    /\ label = getFileType([type |-> <<>>])
    /\ user = uid
    /\ instance = 1
    /\ error = NoError
    /\ loading = FALSE
    /\ page = "login"
    /\ delivered = 1
    /\ early = NoReturn

(* ---------------- fetchFiles ---------------- *)

\* the instance a call belongs to is still mounted: its setState calls take effect
Live(inst) == user # NoUser /\ inst = instance

\* fetchFiles up to its await, called by instance inst for its user userId:
\* setIsLoading(true) and the query is sent
fetchFilesCall(owner, userId, inst) ==
    /\ isLoading' = IF Live(inst) THEN TRUE ELSE isLoading
    /\ fetches' = Append(fetches, [owner |-> owner, uid |-> userId, inst |-> inst,
                                   pc |-> "getDocs", docs |-> <<>>])

\* the batch whose call of fetchFiles has returned returns too
Returned(owner) ==
    IF owner = 0 THEN batches ELSE [batches EXCEPT ![owner].pc = "returned"]

\* useEffect(() => { fetchFiles(); }, [fetchFiles])
Mount ==
    /\ user # NoUser
    /\ ~mounted
    /\ mounted' = TRUE
    /\ fetchFilesCall(0, user, instance)
    /\ alert' = NoAlert
    /\ early' = NoReturn
    /\ UNCHANGED <<files, uploadingFiles, unhandled, backend, batches, deletes, probe, session>>

\* the database evaluates query(filesCollectionRef, where("userId", "==", user.uid))
GetDocs(k) ==
    /\ fetches[k].pc = "getDocs"
    /\ fetches' = [fetches EXCEPT ![k].pc = "answered",
                                  ![k].docs = OrderById({d \in catalog :
                                                           d.data.userId = fetches[k].uid})]
    /\ alert' = NoAlert
    /\ early' = NoReturn
    /\ UNCHANGED <<mounted, files, isLoading, uploadingFiles, unhandled, backend,
                   batches, deletes, probe, session>>

\* a plausible slip: the list cleared when the query fails
FetchReject_Clears(k) ==
    /\ fetches[k].pc = "getDocs"
    /\ alert' = FetchFailed
    /\ early' = NoReturn
    /\ files' = IF Live(fetches[k].inst) THEN <<>> ELSE files
    /\ isLoading' = IF Live(fetches[k].inst) THEN FALSE ELSE isLoading
    /\ fetches' = [fetches EXCEPT ![k].pc = "rejected"]
    /\ batches' = Returned(fetches[k].owner)
    /\ UNCHANGED <<mounted, uploadingFiles, unhandled, backend, deletes, probe, session>>

\* a plausible slip: setIsLoading(false) at the end of the try, no finally
FetchReject_KeepsLoading(k) ==
    /\ fetches[k].pc = "getDocs"
    /\ alert' = FetchFailed
    /\ early' = NoReturn
    /\ fetches' = [fetches EXCEPT ![k].pc = "rejected"]
    /\ batches' = Returned(fetches[k].owner)
    /\ UNCHANGED <<mounted, files, isLoading, uploadingFiles, unhandled, backend,
                   deletes, probe, session>>

\* await getDocs(q) rejects: catch (alert), finally (setIsLoading(false))
FetchReject(k) ==
    /\ fetches[k].pc = "getDocs"
    /\ alert' = FetchFailed
    /\ early' = NoReturn
    /\ isLoading' = IF Live(fetches[k].inst) THEN FALSE ELSE isLoading
    /\ fetches' = [fetches EXCEPT ![k].pc = "rejected"]
    /\ batches' = Returned(fetches[k].owner)
    /\ UNCHANGED <<mounted, files, uploadingFiles, unhandled, backend, deletes, probe, session>>

\* await getDocs(q) resolves: map, sort, setFiles, finally (setIsLoading(false))
FetchResolve(k) ==
    /\ fetches[k].pc = "answered"
    /\ LET userFiles == [i \in 1..Len(fetches[k].docs) |->
                            WithId(fetches[k].docs[i].data, fetches[k].docs[i].id)]
       IN files' = IF Live(fetches[k].inst) THEN sort(userFiles) ELSE files
    /\ isLoading' = IF Live(fetches[k].inst) THEN FALSE ELSE isLoading
    /\ fetches' = [fetches EXCEPT ![k].pc = "resolved", ![k].docs = <<>>]
    /\ batches' = Returned(fetches[k].owner)
    /\ alert' = NoAlert
    /\ early' = NoReturn
    /\ UNCHANGED <<mounted, uploadingFiles, unhandled, backend, deletes, probe, session>>

(* ---------------- handleUploadFiles ---------------- *)

\* the files handed to handleUploadFiles so far
RECURSIVE Handed(_)
Handed(bs) == IF bs = <<>> THEN 0 ELSE Len(Head(bs).pipes) + Handed(Tail(bs))

Settled(p) == p.pc \in {"done", "caught"}

\* The drop zone and the file input are rendered only when the loading screen
\* is not.  The call runs to the first await of every pipeline: the names are
\* added, every pipeline draws its identifier and sends its uploadBytes.
HandleUploadFiles(filesToUpload) ==
    /\ user # NoUser /\ mounted /\ ~isLoading
    /\ Len(filesToUpload) # 0
    /\ Handed(batches) + Len(filesToUpload) <= MaxUploads
    /\ LET currentUploads == [i \in 1..Len(filesToUpload) |-> filesToUpload[i].name]
           uploadPromises ==
               [i \in 1..Len(filesToUpload) |->
                   [file |-> filesToUpload[i],
                    storagePath |-> storagePath(user, randomUUID(nextUuid + i - 1),
                                                filesToUpload[i].name),
                    url |-> "",
                    pc |-> "uploadBytes",
                    threw |-> ""]]
       IN /\ uploadingFiles' = uploadingFiles \o currentUploads
          /\ batches' = Append(batches, [uid |-> user, inst |-> instance,
                                         currentUploads |-> currentUploads,
                                         pipes |-> uploadPromises,
                                         pc |-> "pipelines"])
    /\ nextUuid' = nextUuid + Len(filesToUpload)
    /\ alert' = NoAlert
    /\ early' = NoReturn
    /\ UNCHANGED <<mounted, files, isLoading, unhandled, catalog, blobs, nextDocId,
                   fetches, deletes, probe, session>>

\* await uploadBytes(storageRef, file) resolves; getDownloadURL is sent
UploadBytesResolve(b, i) ==
    LET p == batches[b].pipes[i] IN
    /\ p.pc = "uploadBytes"
    /\ blobs' = [q \in DOMAIN blobs \cup {p.storagePath} |->
                    IF q = p.storagePath THEN p.file ELSE blobs[q]]
    /\ batches' = [batches EXCEPT ![b].pipes[i].pc = "getDownloadURL"]
    /\ alert' = NoAlert
    /\ early' = NoReturn
    /\ UNCHANGED <<mounted, files, isLoading, uploadingFiles, unhandled, catalog, nextDocId,
                   nextUuid, fetches, deletes, probe, session>>

\* await getDownloadURL(storageRef) resolves; newFileDoc is built and addDoc is sent
GetDownloadURLResolve(b, i) ==
    LET p == batches[b].pipes[i] IN
    /\ p.pc = "getDownloadURL"
    /\ p.storagePath \in DOMAIN blobs
    /\ batches' = [batches EXCEPT ![b].pipes[i].pc = "addDoc",
                                  ![b].pipes[i].url = downloadURL(p.storagePath)]
    /\ alert' = NoAlert
    /\ early' = NoReturn
    /\ UNCHANGED <<mounted, files, isLoading, uploadingFiles, unhandled, backend,
                   fetches, deletes, probe, session>>

\* await addDoc(filesCollectionRef, newFileDoc) resolves: the pipeline is done
AddDocResolve(b, i) ==
    LET p == batches[b].pipes[i] IN
    /\ p.pc = "addDoc"
    /\ catalog' = catalog \cup {[id |-> nextDocId,
                                 data |-> newFileDoc(p.file, p.url, batches[b].uid,
                                                    p.storagePath)]}
    /\ nextDocId' = nextDocId + 1
    /\ batches' = [batches EXCEPT ![b].pipes[i].pc = "done"]
    /\ alert' = NoAlert
    /\ early' = NoReturn
    /\ UNCHANGED <<mounted, files, isLoading, uploadingFiles, unhandled, blobs, nextUuid,
                   fetches, deletes, probe, session>>

\* a plausible slip: no try/catch in the pipeline, so the rejection reaches
\* Promise.all, which rejects at once, and handleUploadFiles ends there
PipelineReject_Rethrows(b, i) ==
    LET p == batches[b].pipes[i] IN
    /\ p.pc \in {"uploadBytes", "getDownloadURL", "addDoc"}
    /\ batches[b].pc = "pipelines"
    /\ batches' = [batches EXCEPT ![b].pipes[i].pc = "caught",
                                  ![b].pipes[i].threw = p.pc,
                                  ![b].pc = "returned"]
    /\ unhandled' = TRUE
    /\ alert' = NoAlert
    /\ early' = NoReturn
    /\ UNCHANGED <<mounted, files, isLoading, uploadingFiles, backend, fetches, deletes, probe, session>>

\* a plausible slip: the record written although the URL could not be resolved
PipelineReject_StillCreates(b, i) ==
    LET p == batches[b].pipes[i] IN
    /\ p.pc \in {"uploadBytes", "getDownloadURL", "addDoc"}
    /\ batches' = [batches EXCEPT ![b].pipes[i].pc = "caught",
                                  ![b].pipes[i].threw = p.pc]
    /\ catalog' = IF p.pc = "getDownloadURL"
                  THEN catalog \cup {[id |-> nextDocId,
                                      data |-> newFileDoc(p.file, p.url, batches[b].uid,
                                                         p.storagePath)]}
                  ELSE catalog
    /\ nextDocId' = IF p.pc = "getDownloadURL" THEN nextDocId + 1 ELSE nextDocId
    /\ alert' = UploadFailed(p.file.name)
    /\ early' = NoReturn
    /\ UNCHANGED <<mounted, files, isLoading, uploadingFiles, unhandled, blobs, nextUuid,
                   fetches, deletes, probe, session>>

\* one of the three awaits of a pipeline rejects: catch (alert naming the file)
PipelineReject(b, i) ==
    LET p == batches[b].pipes[i] IN
    /\ p.pc \in {"uploadBytes", "getDownloadURL", "addDoc"}
    /\ batches' = [batches EXCEPT ![b].pipes[i].pc = "caught",
                                  ![b].pipes[i].threw = p.pc]
    /\ alert' = UploadFailed(p.file.name)
    /\ early' = NoReturn
    /\ UNCHANGED <<mounted, files, isLoading, uploadingFiles, unhandled, backend,
                   fetches, deletes, probe, session>>

\* a plausible slip: only the names of the pipelines that succeeded are removed
Join_KeepsFailed(b) ==
    /\ batches[b].pc = "pipelines"
    /\ \A i \in 1..Len(batches[b].pipes) : Settled(batches[b].pipes[i])
    /\ LET done == {batches[b].pipes[i].file.name :
                       i \in {j \in 1..Len(batches[b].pipes) : batches[b].pipes[j].pc = "done"}}
       IN uploadingFiles' = IF Live(batches[b].inst)
                            THEN SelectSeq(uploadingFiles, LAMBDA name : name \notin done)
                            ELSE uploadingFiles
    /\ fetchFilesCall(b, batches[b].uid, batches[b].inst)
    /\ batches' = [batches EXCEPT ![b].pc = "fetchFiles"]
    /\ alert' = NoAlert
    /\ early' = NoReturn
    /\ UNCHANGED <<mounted, files, unhandled, backend, deletes, probe, session>>

\* await Promise.all(uploadPromises) resolves: the names of the batch are filtered
\* out of uploadingFiles and fetchFiles is called
Join(b) ==
    /\ batches[b].pc = "pipelines"
    /\ \A i \in 1..Len(batches[b].pipes) : Settled(batches[b].pipes[i])
    /\ uploadingFiles' =
          IF Live(batches[b].inst)
          THEN SelectSeq(uploadingFiles,
                         LAMBDA name : name \notin Range(batches[b].currentUploads))
          ELSE uploadingFiles
    /\ fetchFilesCall(b, batches[b].uid, batches[b].inst)
    /\ batches' = [batches EXCEPT ![b].pc = "fetchFiles"]
    /\ alert' = NoAlert
    /\ early' = NoReturn
    /\ UNCHANGED <<mounted, files, unhandled, backend, deletes, probe, session>>

(* ---------------- handleDeleteFile ---------------- *)

\* a plausible slip: the file taken out of the list before the backend answered
HandleDeleteFile_Optimistic(file) ==
    /\ user # NoUser /\ mounted /\ ~isLoading
    /\ file \in Range(files)
    /\ Len(deletes) < MaxDeletes
    /\ deletes' = Append(deletes, [file |-> file, inst |-> instance,
                                   pc |-> "deleteObject", threw |-> ""])
    /\ files' = SelectSeq(files, LAMBDA f : f.id # file.id)
    /\ alert' = NoAlert
    /\ early' = NoReturn
    /\ UNCHANGED <<mounted, isLoading, uploadingFiles, unhandled, backend,
                   fetches, batches, probe, session>>

\* The delete button of a file is rendered only with the file in the list and
\* the loading screen away; window.confirm was answered with OK.  The call runs
\* to its first await: deleteObject is sent.
HandleDeleteFile(file) ==
    /\ user # NoUser /\ mounted /\ ~isLoading
    /\ file \in Range(files)
    /\ Len(deletes) < MaxDeletes
    /\ deletes' = Append(deletes, [file |-> file, inst |-> instance,
                                   pc |-> "deleteObject", threw |-> ""])
    /\ alert' = NoAlert
    /\ early' = NoReturn
    /\ UNCHANGED <<mounted, files, isLoading, uploadingFiles, unhandled, backend,
                   fetches, batches, probe, session>>

\* await deleteObject(storageRef) resolves; deleteDoc is sent
DeleteObjectResolve(d) ==
    /\ deletes[d].pc = "deleteObject"
    /\ blobs' = [q \in DOMAIN blobs \ {deletes[d].file.storagePath} |-> blobs[q]]
    /\ deletes' = [deletes EXCEPT ![d].pc = "deleteDoc"]
    /\ alert' = NoAlert
    /\ early' = NoReturn
    /\ UNCHANGED <<mounted, files, isLoading, uploadingFiles, unhandled, catalog, nextDocId,
                   nextUuid, fetches, batches, probe, session>>

\* a plausible slip: the files of the same name filtered out instead of the one id
DeleteDocResolve_ByName(d) ==
    /\ deletes[d].pc = "deleteDoc"
    /\ catalog' = {doc \in catalog : doc.id # deletes[d].file.id}
    /\ files' = IF Live(deletes[d].inst)
                 THEN SelectSeq(files, LAMBDA f : f.name # deletes[d].file.name)
                 ELSE files
    /\ deletes' = [deletes EXCEPT ![d].pc = "done"]
    /\ alert' = NoAlert
    /\ early' = NoReturn
    /\ UNCHANGED <<mounted, isLoading, uploadingFiles, unhandled, blobs, nextDocId,
                   nextUuid, fetches, batches, probe, session>>

\* await deleteDoc(fileDocRef) resolves; setFiles(prev => prev.filter(f => f.id !== file.id))
DeleteDocResolve(d) ==
    /\ deletes[d].pc = "deleteDoc"
    /\ catalog' = {doc \in catalog : doc.id # deletes[d].file.id}
    /\ files' = IF Live(deletes[d].inst)
                 THEN SelectSeq(files, LAMBDA f : f.id # deletes[d].file.id)
                 ELSE files
    /\ deletes' = [deletes EXCEPT ![d].pc = "done"]
    /\ alert' = NoAlert
    /\ early' = NoReturn
    /\ UNCHANGED <<mounted, isLoading, uploadingFiles, unhandled, blobs, nextDocId,
                   nextUuid, fetches, batches, probe, session>>

\* a plausible slip: the file taken out of the list although the delete failed
DeleteReject_Removes(d) ==
    /\ deletes[d].pc \in {"deleteObject", "deleteDoc"}
    /\ deletes' = [deletes EXCEPT ![d].pc = "caught", ![d].threw = deletes[d].pc]
    /\ files' = IF Live(deletes[d].inst)
                 THEN SelectSeq(files, LAMBDA f : f.id # deletes[d].file.id)
                 ELSE files
    /\ alert' = DeleteFailed
    /\ early' = NoReturn
    /\ UNCHANGED <<mounted, isLoading, uploadingFiles, unhandled, backend,
                   fetches, batches, probe, session>>

\* await deleteObject or await deleteDoc rejects: catch (alert)
DeleteReject(d) ==
    /\ deletes[d].pc \in {"deleteObject", "deleteDoc"}
    /\ deletes' = [deletes EXCEPT ![d].pc = "caught", ![d].threw = deletes[d].pc]
    /\ alert' = DeleteFailed
    /\ early' = NoReturn
    /\ UNCHANGED <<mounted, files, isLoading, uploadingFiles, unhandled, backend,
                   fetches, batches, probe, session>>

\* a plausible slip: the delete goes ahead whatever window.confirm answered
DeclineDelete_Proceeds(file) ==
    /\ user # NoUser /\ mounted /\ ~isLoading
    /\ file \in Range(files)
    /\ deletes' = Append(deletes, [file |-> file, inst |-> instance,
                                   pc |-> "deleteObject", threw |-> ""])
    /\ alert' = NoAlert
    /\ early' = NotConfirmed
    /\ UNCHANGED <<mounted, files, isLoading, uploadingFiles, unhandled, backend,
                   fetches, batches, probe, session>>

\* handleDeleteFile with window.confirm answered Cancel: the call returns
DeclineDelete(file) ==
    /\ user # NoUser /\ mounted /\ ~isLoading
    /\ file \in Range(files)
    /\ alert' = NoAlert
    /\ early' = NotConfirmed
    /\ UNCHANGED <<mounted, files, isLoading, uploadingFiles, unhandled, backend,
                   calls, probe, session>>

\* a plausible slip: the list refreshed although nothing was handed over
HandleUploadFilesEmpty_Refreshes ==
    /\ user # NoUser /\ mounted /\ ~isLoading
    /\ fetchFilesCall(0, user, instance)
    /\ alert' = NoAlert
    /\ early' = EmptyList
    /\ UNCHANGED <<mounted, files, uploadingFiles, unhandled, backend,
                   batches, deletes, probe, session>>

\* handleUploadFiles([]), as handleFileInputChange calls it when the input
\* holds no file: the call returns at its first line
HandleUploadFilesEmpty ==
    /\ user # NoUser /\ mounted /\ ~isLoading
    /\ alert' = NoAlert
    /\ early' = EmptyList
    /\ UNCHANGED <<mounted, files, isLoading, uploadingFiles, unhandled, backend,
                   calls, probe, session>>

(* ---------------- App: signing out and in ---------------- *)

\* The click on a sign-out control sends signOut(auth) and changes no state, so
\* it is taken together with the answer.  signOut resolves: the auth watcher
\* delivers null, setUser(null), and App renders an auth page in place of the
\* DashboardPage, whose state goes with it.
SignOutResolve ==
    /\ user # NoUser
    /\ user' = NoUser
    /\ error' = NoError
    /\ mounted' = FALSE
    /\ files' = <<>>
    /\ isLoading' = TRUE
    /\ uploadingFiles' = <<>>
    /\ alert' = NoAlert
    /\ early' = NoReturn
    /\ delivered' = delivered + 1
    /\ UNCHANGED <<unhandled, backend, calls, probe, instance, loading, page>>

\* TopHeader of App.tsx: onClick={() => signOut(auth)}; signOut rejects and
\* nothing awaits or catches the promise
TopHeaderSignOutReject ==
    /\ user # NoUser
    /\ unhandled' = TRUE
    /\ alert' = NoAlert
    /\ early' = NoReturn
    /\ UNCHANGED <<mounted, files, isLoading, uploadingFiles, backend, calls, probe, session>>

\* handleLogout of the other App: await signOut(auth) rejects: catch (alert)
HandleLogoutReject ==
    /\ user # NoUser
    /\ alert' = SignOutFailed
    /\ early' = NoReturn
    /\ UNCHANGED <<mounted, files, isLoading, uploadingFiles, unhandled, backend,
                   calls, probe, session>>

\* LoginPage.handleSubmit (or SignupPage.handleSubmit) with its backend call
\* resolving for the account u: the auth watcher delivers u, setUser(u), and
\* App renders a new DashboardPage for u
SignIn(u) ==
    /\ ~loading /\ user = NoUser
    /\ page \in {"login", "signup"}
    /\ instance < MaxInstances
    /\ user' = u
    /\ instance' = instance + 1
    /\ delivered' = delivered + 1
    /\ error' = NoError
    /\ alert' = NoAlert
    /\ early' = NoReturn
    /\ UNCHANGED <<mounted, files, isLoading, uploadingFiles, unhandled, backend,
                   calls, probe, loading, page>>

\* handleSubmit of an auth page with its backend call rejecting: catch
\* (setError with the message of the page)
AuthReject(message) ==
    /\ ~loading /\ user = NoUser
    /\ message = FormError(page)
    /\ error' = message
    /\ alert' = NoAlert
    /\ early' = NoReturn
    /\ UNCHANGED <<mounted, files, isLoading, uploadingFiles, unhandled, backend,
                   calls, probe, user, instance, loading, page, delivered>>

(* ---------------- App: the auth watcher and the pages ---------------- *)

\* what App renders: the loading screen, an auth page or the dashboard
Shown ==
    IF loading THEN "Loading..."
    ELSE IF user = NoUser THEN page
    ELSE "DashboardPage"

\* the pages a link of the page shown leads to
Links(from) ==
    IF from = "login" THEN {"signup", "forgot-password"}
    ELSE IF from \in {"signup", "forgot-password"} THEN {"login"}
    ELSE {}

\* onNavigate(to): setPage(to); the page left is unmounted, its message with it
Navigate(to) ==
    /\ to \in Links(Shown)
    /\ page' = to
    /\ error' = NoError
    /\ alert' = NoAlert
    /\ early' = NoReturn
    /\ UNCHANGED <<mounted, files, isLoading, uploadingFiles, unhandled, backend,
                   calls, probe, user, instance, loading, delivered>>

\* The first call of the watcher's callback, with the identity the browser
\* has kept (u) or with null: setUser(u); setLoading(false).
FirstAuthState(u) ==
    /\ loading
    /\ user' = u
    /\ loading' = FALSE
    /\ instance' = IF u = NoUser THEN instance ELSE instance + 1
    /\ delivered' = delivered + 1
    /\ alert' = NoAlert
    /\ early' = NoReturn
    /\ UNCHANGED <<mounted, files, isLoading, uploadingFiles, unhandled, backend,
                   calls, probe, error, page>>

\* The watcher delivers another user while one is signed in (the account was
\* changed in another tab): setUser(u).  App keeps rendering the same
\* DashboardPage with the new user; fetchFiles, which depends on user, is a
\* new callback, so the effect that calls it runs again.
AuthStateSwitched(u) ==
    /\ user # NoUser /\ u # NoUser /\ u # user
    /\ user' = u
    /\ delivered' = delivered + 1
    /\ IF mounted
       THEN fetchFilesCall(0, u, instance)
       ELSE UNCHANGED <<isLoading, fetches>>
    /\ alert' = NoAlert
    /\ early' = NoReturn
    /\ UNCHANGED <<mounted, files, uploadingFiles, unhandled, backend, batches, deletes,
                   probe, instance, error, loading, page>>

(* ---------------- the folder view ---------------- *)

\* a plausible slip: the bucket started anew with every file
reduceStep_Overwrites(acc, file) ==
    [k \in DOMAIN acc \cup {file.type} |-> IF k = file.type THEN <<file>> ELSE acc[k]]

\* if (!acc[file.type]) acc[file.type] = []; acc[file.type].push(file); return acc
reduceStep(acc, file) ==
    [k \in DOMAIN acc \cup {file.type} |->
        IF k = file.type
        THEN (IF k \in DOMAIN acc THEN acc[k] ELSE <<>>) \o <<file>>
        ELSE acc[k]]

\* Array.prototype.reduce, from the left
RECURSIVE reduce(_, _)
reduce(acc, s) == IF s = <<>> THEN acc ELSE reduce(reduceStep(acc, Head(s)), Tail(s))

\* useMemo(() => files.reduce(..., {}), [files])
groupedFiles == reduce([k \in {} |-> <<>>], files)

\* Object.values(FileType)
folderCategories == FileTypeValues

\* count={groupedFiles[category]?.length || 0}
count(category) ==
    IF category \in DOMAIN groupedFiles THEN Len(groupedFiles[category]) ELSE 0

(* ---------------- the specification of the dashboard ---------------- *)

Next ==
    \/ Mount
    \/ \E k \in 1..Len(fetches) : GetDocs(k)
    \/ \E k \in 1..Len(fetches) : FetchResolve(k)
    \/ \E k \in 1..Len(fetches) : FetchReject(k)
    \/ \E filesToUpload \in FileLists(MaxUploads) : HandleUploadFiles(filesToUpload)
    \/ \E b \in 1..Len(batches) : \E i \in 1..Len(batches[b].pipes) : UploadBytesResolve(b, i)
    \/ \E b \in 1..Len(batches) : \E i \in 1..Len(batches[b].pipes) : GetDownloadURLResolve(b, i)
    \/ \E b \in 1..Len(batches) : \E i \in 1..Len(batches[b].pipes) : AddDocResolve(b, i)
    \/ \E b \in 1..Len(batches) : \E i \in 1..Len(batches[b].pipes) : PipelineReject(b, i)
    \/ \E b \in 1..Len(batches) : Join(b)
    \/ \E file \in Range(files) : HandleDeleteFile(file)
    \/ \E d \in 1..Len(deletes) : DeleteObjectResolve(d)
    \/ \E d \in 1..Len(deletes) : DeleteDocResolve(d)
    \/ \E d \in 1..Len(deletes) : DeleteReject(d)

Spec == Init /\ [][Next]_vars

(* ---------------- the specification with users coming and going ---------------- *)

NextSession ==
    \/ Mount
    \/ \E k \in 1..Len(fetches) : GetDocs(k)
    \/ \E k \in 1..Len(fetches) : FetchResolve(k)
    \/ \E k \in 1..Len(fetches) : FetchReject(k)
    \/ \E filesToUpload \in FileLists(SessionUploads) :
          /\ Handed(batches) + Len(filesToUpload) <= SessionUploads
          /\ HandleUploadFiles(filesToUpload)
    \/ HandleUploadFilesEmpty
    \/ \E b \in 1..Len(batches) : \E i \in 1..Len(batches[b].pipes) : UploadBytesResolve(b, i)
    \/ \E b \in 1..Len(batches) : \E i \in 1..Len(batches[b].pipes) : GetDownloadURLResolve(b, i)
    \/ \E b \in 1..Len(batches) : \E i \in 1..Len(batches[b].pipes) : AddDocResolve(b, i)
    \/ \E b \in 1..Len(batches) : \E i \in 1..Len(batches[b].pipes) : PipelineReject(b, i)
    \/ \E b \in 1..Len(batches) : Join(b)
    \/ \E file \in Range(files) : Len(deletes) < SessionDeletes /\ HandleDeleteFile(file)
    \/ \E file \in Range(files) : DeclineDelete(file)
    \/ \E d \in 1..Len(deletes) : DeleteObjectResolve(d)
    \/ \E d \in 1..Len(deletes) : DeleteDocResolve(d)
    \/ \E d \in 1..Len(deletes) : DeleteReject(d)
    \/ SignOutResolve
    \/ TopHeaderSignOutReject
    \/ HandleLogoutReject
    \/ \E u \in Users : SignIn(u)
    \/ \E message \in {LoginFailed, SignupFailed, ResetFailed} : AuthReject(message)

SpecSession == Init /\ [][NextSession]_vars

\* The backend answers every query it was sent: the database evaluates it or
\* the call fails, and the answer of an evaluated query reaches the page.
FetchFairness ==
    /\ WF_vars(\E k \in 1..Len(fetches) : GetDocs(k) \/ FetchReject(k))
    /\ WF_vars(\E k \in 1..Len(fetches) : FetchResolve(k))

SpecSessionFair == SpecSession /\ FetchFairness

(* ---------------- the specification of App from its start ---------------- *)

\* App as constructed: no identity delivered yet.  Every signOut of this
\* specification is answered with success; SpecSession has the ones that fail.
InitApp ==
    /\ mounted = FALSE
    /\ files = <<>>
    /\ isLoading = TRUE
    /\ uploadingFiles = <<>>
    /\ alert = NoAlert
    /\ unhandled = FALSE
    /\ catalog = InitialCatalog
    /\ blobs = InitialBlobs
    /\ nextDocId = Cardinality(InitialCatalog) + 1
    /\ nextUuid = Cardinality(InitialCatalog) + 1
    /\ fetches = <<>>
    /\ batches = <<>>
    /\ deletes = <<>>
    /\ ctype = <<>>
    /\ nfrags = 0
    /\ label = getFileType([type |-> <<>>])
    /\ user = NoUser
    /\ instance = 0
    /\ error = NoError
    /\ loading = TRUE
    /\ page = "login"
    /\ delivered = 0
    /\ early = NoReturn

NextApp ==
    \/ \E u \in Users \cup {NoUser} : FirstAuthState(u)
    \/ \E u \in Users : delivered < MaxDeliveries /\ SignIn(u)
    \/ delivered < MaxDeliveries /\ SignOutResolve
    \/ \E u \in Users : delivered < MaxDeliveries /\ AuthStateSwitched(u)
    \/ \E message \in {LoginFailed, SignupFailed, ResetFailed} : AuthReject(message)
    \/ \E to \in {"login", "signup", "forgot-password"} : Navigate(to)
    \/ Mount
    \/ \E k \in 1..Len(fetches) : GetDocs(k)
    \/ \E k \in 1..Len(fetches) : FetchResolve(k)
    \/ \E k \in 1..Len(fetches) : FetchReject(k)
    \/ \E filesToUpload \in FileLists(SessionUploads) :
          /\ Handed(batches) + Len(filesToUpload) <= SessionUploads
          /\ HandleUploadFiles(filesToUpload)
    \/ HandleUploadFilesEmpty
    \/ \E b \in 1..Len(batches) : \E i \in 1..Len(batches[b].pipes) : UploadBytesResolve(b, i)
    \/ \E b \in 1..Len(batches) : \E i \in 1..Len(batches[b].pipes) : GetDownloadURLResolve(b, i)
    \/ \E b \in 1..Len(batches) : \E i \in 1..Len(batches[b].pipes) : AddDocResolve(b, i)
    \/ \E b \in 1..Len(batches) : \E i \in 1..Len(batches[b].pipes) : PipelineReject(b, i)
    \/ \E b \in 1..Len(batches) : Join(b)
    \/ \E file \in Range(files) : Len(deletes) < SessionDeletes /\ HandleDeleteFile(file)
    \/ \E file \in Range(files) : DeclineDelete(file)
    \/ \E d \in 1..Len(deletes) : DeleteObjectResolve(d)
    \/ \E d \in 1..Len(deletes) : DeleteDocResolve(d)
    \/ \E d \in 1..Len(deletes) : DeleteReject(d)

SpecApp == InitApp /\ [][NextApp]_vars

(* ---------------- the specification of the classifier ---------------- *)

\* the pieces content-type strings are put together from: the prefixes and words
\* the classifier looks for, and pieces that only nearly match them
Fragments ==
    { Image, Video, Audio, Text, Pdf, DocumentWord,
      <<"I","M","A","G","E","/">>, <<"i","m","a","g","e">>, <<"/">>, <<"x">>, <<"p","n","g">> }

\* getFileType put to the string grown by one fragment
Classify(frag) ==
    /\ nfrags < MaxFrags
    /\ ctype' = ctype \o frag
    /\ nfrags' = nfrags + 1
    /\ label' = getFileType([name |-> "probe", type |-> ctype \o frag, size |-> 0])
    /\ UNCHANGED <<dashboard, backend, calls, session, early>>

NextClassifier == \E frag \in Fragments : Classify(frag)

SpecClassifier == Init /\ [][NextClassifier]_vars

(* ---------------- what the claims speak of ---------------- *)

\* the pipelines started so far: <<batch, index>>
Pipelines == UNION {{<<b, i>> : i \in 1..Len(batches[b].pipes)} : b \in 1..Len(batches)}

PipeOf(x) == batches[x[1]].pipes[x[2]]

Over(d) == d.pc \in {"done", "caught"}

\* a call of handleDeleteFile has taken the object at path out of the store
BlobDeleted(path) ==
    \E d \in 1..Len(deletes) :
        /\ deletes[d].file.storagePath = path
        /\ deletes[d].pc \in {"deleteDoc", "done"} \/ deletes[d].threw = "deleteDoc"

\* a call of handleDeleteFile has taken the record of path out of the collection
DocDeleted(path) ==
    \E d \in 1..Len(deletes) : deletes[d].file.storagePath = path /\ deletes[d].pc = "done"

ListedAt(list, path) == {j \in 1..Len(list) : list[j].storagePath = path}

Ids(list) == {list[j].id : j \in 1..Len(list)}

(* ---------------- C1 ---------------- *)

\* what the list set by the fetch of batch b holds for the batch's pipelines
RoundTrip(b, list) ==
    \A i \in 1..Len(batches[b].pipes) :
        LET p == batches[b].pipes[i] IN
        (p.pc = "done" /\ ~DocDeleted(p.storagePath)) =>
            /\ Cardinality(ListedAt(list, p.storagePath)) = 1
            /\ \A j \in ListedAt(list, p.storagePath) :
                  /\ list[j].name = p.file.name
                  /\ list[j].size = p.file.size
                  /\ list[j].type = getFileType(p.file)
                  /\ (p.file = PhotoJpg => list[j].type = "Photos" /\ list[j].size = 2048)

\* C1: when the fetch that follows an upload batch resolves, the list it sets
\* holds, for every file of the batch whose pipeline succeeded (and whose record
\* was not deleted since), exactly one record at the file's storage path, with
\* the file's name, the file's size and the category the classifier gives the
\* file's content-type; photo.jpg (image/jpeg, 2048 bytes) is listed as Photos
\* with size 2048.
C1_RoundTrip ==
    [][\A k \in 1..Len(fetches) :
          (fetches[k].owner # 0 /\ fetches[k].pc = "answered" /\ fetches'[k].pc = "resolved")
              => RoundTrip(fetches[k].owner, files')]_vars

C1_Witness ==
    \E k \in 1..Len(fetches) :
        /\ fetches[k].owner # 0 /\ fetches[k].pc = "resolved"
        /\ \E i \in 1..Len(batches[fetches[k].owner].pipes) :
              LET p == batches[fetches[k].owner].pipes[i] IN
              /\ p.pc = "done" /\ p.file = PhotoJpg
              /\ \E j \in 1..Len(files) :
                    /\ files[j].storagePath = p.storagePath
                    /\ files[j].name = "photo.jpg"
                    /\ files[j].type = "Photos"
                    /\ files[j].size = 2048

(* ---------------- C2 ---------------- *)

\* no call of handleUploadFiles or handleDeleteFile is in progress
NoCallInProgress ==
    /\ \A b \in 1..Len(batches) : batches[b].pc = "returned"
    /\ \A d \in 1..Len(deletes) : Over(deletes[d])

\* C2: whenever no upload or delete call is in progress, every record of the
\* collection has a blob at its storagePath and every blob has a record.
C2_RecordBlobConsistency ==
    NoCallInProgress =>
        /\ \A doc \in catalog : doc.data.storagePath \in DOMAIN blobs
        /\ \A path \in DOMAIN blobs : \E doc \in catalog : doc.data.storagePath = path

(* ---------------- C3 ---------------- *)

\* C3: the step in which a fetch's query fails raises the fetch notice, leaves
\* the list as it was (empty when it is the fetch on mount), clears the loading
\* flag and leaves no rejection unhandled.
C3_FetchFailure ==
    [][\A k \in 1..Len(fetches) :
          (fetches[k].pc = "getDocs" /\ fetches'[k].pc = "rejected") =>
              /\ alert' = FetchFailed
              /\ files' = files
              /\ (fetches[k].owner = 0 => files' = <<>>)
              /\ isLoading' = FALSE
              /\ unhandled' = FALSE]_vars

C3_Witness ==
    \E k \in 1..Len(fetches) :
        /\ fetches[k].pc = "rejected"
        /\ alert = FetchFailed
        /\ files # <<>>
        /\ ~isLoading

(* ---------------- C4 ---------------- *)

\* C4: the step in which a confirmed delete fails, at either backend call, raises
\* the delete notice and leaves the list as it was; when it is deleteObject that
\* failed the record stays where it is in the list and in the collection, and
\* the call, once it has failed, never goes on to deleteDoc.
C4_DeleteFailure ==
    [][\A d \in 1..Len(deletes) :
          /\ (deletes[d].pc \in {"deleteObject", "deleteDoc"} /\ deletes'[d].pc = "caught") =>
                /\ alert' = DeleteFailed
                /\ files' = files
                /\ (deletes[d].pc = "deleteObject" =>
                       /\ catalog' = catalog
                       /\ blobs' = blobs
                       /\ (deletes[d].file \in Range(files) => deletes[d].file \in Range(files')))
          /\ (deletes[d].pc = "caught" => deletes'[d] = deletes[d])]_vars

C4_Witness ==
    \E d \in 1..Len(deletes) :
        /\ deletes[d].pc = "caught" /\ deletes[d].threw = "deleteObject"
        /\ alert = DeleteFailed
        /\ deletes[d].file \in Range(files)
        /\ \E doc \in catalog : doc.id = deletes[d].file.id
        /\ deletes[d].file.storagePath \in DOMAIN blobs

(* ---------------- C5 ---------------- *)

\* another call on the same file has succeeded and the file is off the list
AlreadyDeleted(d) ==
    /\ \E e \in 1..Len(deletes) :
          e # d /\ deletes[e].file.id = deletes[d].file.id /\ deletes[e].pc = "done"
    /\ deletes[d].file.id \notin Ids(files)

\* C5: when a delete of a file has succeeded and the file is off the list, the
\* step that ends a second delete of the same file, whether it succeeds (as a
\* no-op) or fails, leaves the list exactly as it was, the file absent.
C5_DeleteTwice ==
    [][\A d \in 1..Len(deletes) :
          (~Over(deletes[d]) /\ Over(deletes'[d]) /\ AlreadyDeleted(d)) =>
              /\ files' = files
              /\ deletes[d].file.id \notin Ids(files')]_vars

C5_Witness ==
    /\ alert = DeleteFailed
    /\ \E d, e \in 1..Len(deletes) :
          /\ d # e
          /\ deletes[e].file.id = deletes[d].file.id
          /\ deletes[e].pc = "done"
          /\ deletes[d].pc = "caught"
          /\ \A c \in 1..Len(deletes) : deletes[c].pc = "caught" => c = d
          /\ deletes[d].file.id \notin Ids(files)

(* ---------------- C6 ---------------- *)

\* the path has the form files/{userId}/{randomId}-{originalName}
WellFormedPath(p) ==
    \E n \in 1..(nextUuid - 1) :
        p.storagePath = "files/" \o uid \o "/" \o randomUUID(n) \o "-" \o p.file.name

\* C6: any two pipelines of the user, of one batch or of two, have different
\* storage paths of the form files/{userId}/{randomId}-{originalName}; the blob a
\* pipeline has written stays at its path with that file in it, and every
\* pipeline that is done has a record of its own in the collection (until a
\* delete of that very file takes them away).
C6_DistinctPaths ==
    /\ \A x, y \in Pipelines : x # y => PipeOf(x).storagePath # PipeOf(y).storagePath
    /\ \A x \in Pipelines :
          LET p == PipeOf(x) IN
          /\ WellFormedPath(p)
          /\ p.storagePath \notin DOMAIN InitialBlobs
          /\ (p.pc \in {"getDownloadURL", "addDoc", "done"} /\ ~BlobDeleted(p.storagePath)) =>
                (p.storagePath \in DOMAIN blobs /\ blobs[p.storagePath] = p.file)
          /\ (p.pc = "done" /\ ~DocDeleted(p.storagePath)) =>
                Cardinality({doc \in catalog : doc.data.storagePath = p.storagePath}) = 1

C6_Witness ==
    \E b \in 1..Len(batches) :
        /\ Len(batches[b].pipes) = 2
        /\ \A i \in 1..2 : batches[b].pipes[i].file = ATxt /\ batches[b].pipes[i].pc = "done"
        /\ batches[b].pipes[1].storagePath # batches[b].pipes[2].storagePath
        /\ \A i \in 1..2 :
              /\ batches[b].pipes[i].storagePath \in DOMAIN blobs
              /\ \E doc \in catalog : doc.data.storagePath = batches[b].pipes[i].storagePath

(* ---------------- C7 ---------------- *)

IsPrefix(p, t) == Len(p) <= Len(t) /\ \A i \in 1..Len(p) : t[i] = p[i]

Contains(t, p) == \E k \in 0..(Len(t) - Len(p)) : \A i \in 1..Len(p) : t[k + i] = p[i]

\* the category by the precedence of the contract
ByPrecedence(t) ==
    CASE IsPrefix(Image, t) -> "Photos"
      [] ~IsPrefix(Image, t) /\ IsPrefix(Video, t) -> "Videos"
      [] ~IsPrefix(Image, t) /\ ~IsPrefix(Video, t) /\ IsPrefix(Audio, t) -> "Songs"
      [] /\ ~IsPrefix(Image, t) /\ ~IsPrefix(Video, t) /\ ~IsPrefix(Audio, t)
         /\ (t = Pdf \/ IsPrefix(Text, t) \/ Contains(t, DocumentWord)) -> "Document"
      [] OTHER -> "Others"

\* C7: for every content-type string the classifier answers exactly one of the
\* five categories, the one the precedence image/, video/, audio/, (application/pdf,
\* text/, contains "document"), otherwise gives; nothing is normalised: IMAGE/png
\* is Others, audio/document is Songs.
C7_Classifier ==
    /\ label \in FileType
    /\ label = ByPrecedence(ctype)
    /\ (ctype = <<"I","M","A","G","E","/">> \o <<"p","n","g">> => label = "Others")
    /\ (ctype = Audio \o DocumentWord => label = "Songs")

C7_Witness == ctype = Audio \o DocumentWord /\ label = "Songs"

(* ---------------- C8 ---------------- *)

RECURSIVE SumOfCounts(_)
SumOfCounts(categories) ==
    IF categories = <<>> THEN 0
    ELSE count(Head(categories)) + SumOfCounts(Tail(categories))

\* the categories whose bucket of the folder view holds the file
BucketsOf(file) ==
    {c \in Range(folderCategories) : c \in DOMAIN groupedFiles /\ file \in Range(groupedFiles[c])}

\* C8: in every reachable list every file is in the bucket of exactly one of the
\* five categories, and the counts shown for the five folders add up to the
\* number of files in the list.
C8_Partition ==
    /\ \A j \in 1..Len(files) : Cardinality(BucketsOf(files[j])) = 1
    /\ SumOfCounts(folderCategories) = Len(files)

C8_Witness ==
    /\ Len(files) = 3
    /\ count("Document") = 2
    /\ count("Photos") = 1
    /\ count("Others") = 0

(* ---------------- C9 ---------------- *)

\* C9: the step in which one pipeline fails raises the notice that names its
\* file, changes no other pipeline of any batch, does not end the batch and
\* leaves no rejection unhandled; a batch goes past its join only with every
\* one of its pipelines settled, and a pipeline that is not settled can take its
\* next step whatever became of the others.
C9_IndependentPipelines ==
    [][/\ \A x \in Pipelines :
             (~Settled(PipeOf(x)) /\ batches'[x[1]].pipes[x[2]].pc = "caught") =>
                 /\ alert' = UploadFailed(PipeOf(x).file.name)
                 /\ \A y \in Pipelines \ {x} : batches'[y[1]].pipes[y[2]] = PipeOf(y)
                 /\ batches'[x[1]].pc = batches[x[1]].pc
                 /\ unhandled' = FALSE
       /\ \A b \in 1..Len(batches') :
             batches'[b].pc # "pipelines" =>
                 \A i \in 1..Len(batches'[b].pipes) : Settled(batches'[b].pipes[i])
       /\ \A x \in Pipelines :
             /\ PipeOf(x).pc = "uploadBytes" => ENABLED UploadBytesResolve(x[1], x[2])
             /\ PipeOf(x).pc = "getDownloadURL" => ENABLED GetDownloadURLResolve(x[1], x[2])
             /\ PipeOf(x).pc = "addDoc" => ENABLED AddDocResolve(x[1], x[2])]_vars

C9_Witness ==
    \E b \in 1..Len(batches) :
        /\ Len(batches[b].pipes) = 2
        /\ batches[b].pc = "returned"
        /\ batches[b].pipes[1].pc = "caught" /\ batches[b].pipes[1].threw = "uploadBytes"
        /\ batches[b].pipes[2].pc = "done"
        /\ \E doc \in catalog : doc.data.storagePath = batches[b].pipes[2].storagePath

(* ---------------- C10 ---------------- *)

\* C10: the step that starts a batch appends the names of its files to the
\* indicator list as it starts their pipelines; no step in which a pipeline
\* settles, by success or by failure, changes the list; the join of a batch
\* comes with all its pipelines settled and leaves none of the batch's names in
\* the list; and with no batch before its join the list is empty.
C10_UploadingIndicator ==
    [][/\ Len(batches') > Len(batches) =>
             LET new == batches'[Len(batches')] IN
             /\ new.currentUploads = [i \in 1..Len(new.pipes) |-> new.pipes[i].file.name]
             /\ uploadingFiles' = uploadingFiles \o new.currentUploads
             /\ \A i \in 1..Len(new.pipes) : new.pipes[i].pc = "uploadBytes"
       /\ \A x \in Pipelines :
             (~Settled(PipeOf(x)) /\ Settled(batches'[x[1]].pipes[x[2]])) =>
                 uploadingFiles' = uploadingFiles
       /\ \A b \in 1..Len(batches) :
             (batches[b].pc = "pipelines" /\ batches'[b].pc # "pipelines") =>
                 /\ \A i \in 1..Len(batches[b].pipes) : Settled(batches[b].pipes[i])
                 /\ \A i \in 1..Len(batches[b].pipes) :
                       batches[b].pipes[i].file.name \notin Range(uploadingFiles')
       /\ (\A b \in 1..Len(batches') : batches'[b].pc # "pipelines") =>
             uploadingFiles' = <<>>]_vars

C10_Witness ==
    /\ uploadingFiles = <<>>
    /\ \E b \in 1..Len(batches) :
          /\ batches[b].pc # "pipelines"
          /\ Len(batches[b].pipes) = 2
          /\ batches[b].pipes[1].pc = "done"
          /\ batches[b].pipes[2].pc = "caught"

(* ---------------- C18 ---------------- *)

\* C18: a file whose delete call has succeeded is not in the list of the
\* dashboard, whatever fetch completes afterwards.
C18_DeletedStaysOff ==
    \A d \in 1..Len(deletes) :
        deletes[d].pc = "done" => deletes[d].file.id \notin Ids(files)

(* ---------------- C19 ---------------- *)

\* no fetch, no upload call and no delete call is in flight
Quiescent ==
    /\ \A k \in 1..Len(fetches) : fetches[k].pc \in {"resolved", "rejected"}
    /\ NoCallInProgress

\* the records of the collection that belong to userId, in the order of the view
RecordsOf(userId) ==
    sort(OrderById({WithId(d.data, d.id) : d \in {c \in catalog : c.data.userId = userId}}))

\* C19: whenever nothing is in flight and the fetch started last has succeeded,
\* the list holds exactly the records of the user in the collection, by name.
C19_QuiescentList ==
    (/\ mounted
     /\ Quiescent
     /\ fetches # <<>>
     /\ fetches[Len(fetches)].pc = "resolved")
        => files = RecordsOf(user)

(* ---------------- C20 ---------------- *)

\* C20: the name of the file of every pipeline of the dashboard that has not
\* settled is in the indicator list.
C20_IndicatorWhileRunning ==
    \A x \in Pipelines :
        (Live(batches[x[1]].inst) /\ ~Settled(PipeOf(x))) =>
            PipeOf(x).file.name \in Range(uploadingFiles)

(* ---------------- C14 ---------------- *)

\* list is list0 with the one record of identifier id taken out, the others
\* where they were and in the order they were
WithoutId(list0, id, list) ==
    IF id \in Ids(list0)
    THEN \E j \in 1..Len(list0) :
            /\ list0[j].id = id
            /\ list = SubSeq(list0, 1, j - 1) \o SubSeq(list0, j + 1, Len(list0))
    ELSE list = list0

\* C14: a delete call starts with deleteObject and touches neither store nor
\* list as it starts; it goes on to deleteDoc only from deleteObject and with no
\* object left at the file's path; it is done only from deleteDoc, with no
\* record of the file's id left in the collection, and that step takes exactly
\* the record of that id out of the list; and a listed record leaves the list
\* only in the step that ends a delete call of its id with success or in a step
\* in which a fetch sets the list.
C14_DeleteOrdering ==
    [][/\ \A d \in 1..Len(deletes') :
             IF d > Len(deletes)
             THEN /\ deletes'[d].pc = "deleteObject"
                  /\ UNCHANGED <<files, catalog, blobs>>
             ELSE /\ (deletes[d].pc # "deleteDoc" /\ deletes'[d].pc = "deleteDoc") =>
                         /\ deletes[d].pc = "deleteObject"
                         /\ deletes[d].file.storagePath \notin DOMAIN blobs'
                         /\ UNCHANGED <<files, catalog>>
                  /\ (deletes[d].pc # "done" /\ deletes'[d].pc = "done") =>
                         /\ deletes[d].pc = "deleteDoc"
                         /\ deletes[d].file.storagePath \notin DOMAIN blobs
                         /\ \A doc \in catalog' : doc.id # deletes[d].file.id
                         /\ WithoutId(files, deletes[d].file.id, files')
       /\ \A id \in Ids(files) \ Ids(files') :
             \/ \E d \in 1..Len(deletes) :
                   /\ deletes[d].file.id = id
                   /\ deletes[d].pc = "deleteDoc" /\ deletes'[d].pc = "done"
             \/ \E k \in 1..Len(fetches) :
                   fetches[k].pc = "answered" /\ fetches'[k].pc = "resolved"]_vars

C14_Witness ==
    \E d \in 1..Len(deletes) :
        /\ deletes[d].pc = "done"
        /\ deletes[d].file.storagePath \notin DOMAIN blobs
        /\ \A doc \in catalog : doc.id # deletes[d].file.id
        /\ deletes[d].file.id \notin Ids(files)
        /\ files # <<>>
        /\ \A k \in 1..Len(fetches) : fetches[k].pc = "resolved"

(* ---------------- C15 ---------------- *)

\* the records of the collection written for the object at path
RecordsAt(docs, path) == {doc \in docs : doc.data.storagePath = path}

C11_ConfirmBeforeDelete ==
    [][/\ early' = NotConfirmed =>
             UNCHANGED <<mounted, files, isLoading, uploadingFiles, unhandled,
                         backend, calls, session>>
       /\ Len(deletes') > Len(deletes) =>
             /\ early' = NoReturn
             /\ deletes'[Len(deletes')].file \in Range(files)
             /\ deletes'[Len(deletes')].pc = "deleteObject"
             /\ UNCHANGED <<files, catalog, blobs>>
       /\ \A path \in DOMAIN blobs \ DOMAIN blobs' :
             \E d \in 1..Len(deletes) :
                 /\ deletes[d].file.storagePath = path
                 /\ deletes[d].pc = "deleteObject" /\ deletes'[d].pc = "deleteDoc"
       /\ \A doc \in catalog \ catalog' :
             \E d \in 1..Len(deletes) :
                 /\ deletes[d].file.id = doc.id
                 /\ deletes[d].pc = "deleteDoc" /\ deletes'[d].pc = "done"]_vars

C11_Witness ==
    /\ early = NotConfirmed
    /\ deletes = <<>>
    /\ \E f \in Range(files) :
          /\ f.storagePath \in DOMAIN blobs
          /\ \E doc \in catalog : doc.id = f.id

(* ---------------- C12 ---------------- *)

\* files/{userId}/ is where path begins
Under(userId, path) ==
    LET prefix == "files/" \o userId \o "/"
    IN \E rest \in {randomUUID(n) \o "-" \o name : n \in 1..nextUuid, name \in Range(Names)} :
           path = prefix \o rest

\* the step writes no record but one of a pipeline, with the user the batch
\* was started by and a path under that user's directory; a batch is started
\* by the user signed in
CreatedForUploader ==
    /\ \A doc \in catalog' \ catalog :
          \E x \in Pipelines :
              /\ PipeOf(x).pc = "addDoc" /\ batches'[x[1]].pipes[x[2]].pc = "done"
              /\ doc.data.storagePath = PipeOf(x).storagePath
              /\ doc.data.userId = batches[x[1]].uid
              /\ Under(batches[x[1]].uid, doc.data.storagePath)
    /\ Len(batches') > Len(batches) => batches'[Len(batches')].uid = user

\* a query sent in the step asks for the records of the user signed in, and an
\* answer holds no record of anyone but the user asked for
ListForCurrentUser ==
    /\ Len(fetches') > Len(fetches) => fetches'[Len(fetches')].uid = user
    /\ \A k \in 1..Len(fetches') : \A j \in 1..Len(fetches'[k].docs) :
          fetches'[k].docs[j].data.userId = fetches'[k].uid

\* after the step the list holds no record of anyone but the user signed in
ListOfCurrentUser ==
    \A j \in 1..Len(files') : user' # NoUser /\ files'[j].userId = user'

\* a delete call started in the step is on a record of the user signed in
DeleteOwnRecord ==
    Len(deletes') > Len(deletes) => deletes'[Len(deletes')].file.userId = user

\* C12: every record an upload writes carries the uid of the user who ran the
\* upload and a path under files/{uid}/; every query asks for the records of
\* the user signed in; the list never holds a record of another user; and a
\* delete is started only on a record of the user signed in.
C12_OwnershipScoping ==
    [][/\ CreatedForUploader
       /\ ListForCurrentUser
       /\ ListOfCurrentUser
       /\ DeleteOwnRecord]_vars

(* ---------------- C13 ---------------- *)

\* C13: no rejection of a backend call is left unhandled, whichever operation
\* sent the call: the fetch, a pipeline of an upload, a delete, the form of an
\* auth page, a sign-out.
C13_NoUnhandledRejection == unhandled = FALSE

(* ---------------- C16 ---------------- *)

\* the fetches that the call of batch b has started
FetchesOf(fs, b) == {k \in 1..Len(fs) : fs[k].owner = b}

\* C16: the call of a batch starts its fetch in the step in which it leaves
\* its join, which comes with every pipeline of the batch settled and takes the
\* names of the batch off the indicator list of its dashboard; it starts no
\* other fetch, before or after; and a step in which handleUploadFiles returns
\* on an empty list changes no state and starts no fetch.
C16_FetchAfterBatch ==
    [][/\ \A b \in 1..Len(batches') :
             /\ Cardinality(FetchesOf(fetches', b)) =
                   IF batches'[b].pc = "pipelines" THEN 0 ELSE 1
             /\ b <= Len(batches) =>
                   /\ batches[b].pc # "pipelines" => batches'[b].pc # "pipelines"
                   /\ (batches[b].pc = "pipelines" /\ batches'[b].pc # "pipelines") =>
                         /\ \A i \in 1..Len(batches[b].pipes) : Settled(batches[b].pipes[i])
                         /\ Live(batches[b].inst) =>
                               \A i \in 1..Len(batches[b].currentUploads) :
                                   batches[b].currentUploads[i] \notin Range(uploadingFiles')
                         /\ Len(fetches') = Len(fetches) + 1
                         /\ fetches'[Len(fetches')].owner = b
                         /\ fetches'[Len(fetches')].pc = "getDocs"
       /\ Len(fetches') > Len(fetches) =>
             \/ ~mounted /\ mounted' /\ fetches'[Len(fetches')].owner = 0
             \/ \E b \in 1..Len(batches) :
                   /\ fetches'[Len(fetches')].owner = b
                   /\ batches[b].pc = "pipelines" /\ batches'[b].pc = "fetchFiles"
       /\ early' = EmptyList =>
             UNCHANGED <<mounted, files, isLoading, uploadingFiles, unhandled,
                         backend, calls, session>>]_vars

C16_Witness ==
    /\ early = EmptyList
    /\ \E b \in 1..Len(batches) :
          /\ batches[b].pc = "returned"
          /\ Cardinality(FetchesOf(fetches, b)) = 1
          /\ \E i \in 1..Len(batches[b].pipes) : batches[b].pipes[i].pc = "done"
    /\ Len(fetches) = 2

(* ---------------- C17 ---------------- *)

\* the fetches started by the effect of DashboardPage instance i
MountFetches(fs, i) == {k \in 1..Len(fs) : fs[k].owner = 0 /\ fs[k].inst = i}

\* the fetches there can be: one per mount and one per batch
MaxFetches == MaxInstances + SessionUploads

InFlight(k) == k <= Len(fetches) /\ fetches[k].pc \in {"getDocs", "answered"}

Ended(k) == k <= Len(fetches) /\ fetches[k].pc \in {"resolved", "rejected"}

\* C17: the step that mounts the dashboard of a signed-in user finds the list
\* empty, raises the loading flag and sends one query for that user; no
\* instance of the dashboard has more than one fetch of its effect, and a
\* mounted one has exactly one; the step that ends a fetch of the mounted
\* dashboard clears the loading flag, setting the list to the answer when the
\* query succeeded and raising the fetch notice, the list as it was, when it
\* failed; and every fetch in flight ends.
C17_FetchOnMount ==
    /\ [][/\ (~mounted /\ mounted') =>
                /\ user # NoUser /\ files = <<>>
                /\ isLoading'
                /\ Len(fetches') = Len(fetches) + 1
                /\ fetches'[Len(fetches')] = [owner |-> 0, uid |-> user, inst |-> instance,
                                              pc |-> "getDocs", docs |-> <<>>]
          /\ \A i \in 1..instance' : Cardinality(MountFetches(fetches', i)) <= 1
          /\ mounted' => Cardinality(MountFetches(fetches', instance')) = 1
          /\ \A k \in 1..Len(fetches) :
                (InFlight(k) /\ ~InFlight(k)' /\ Live(fetches[k].inst)) =>
                    /\ ~isLoading'
                    /\ fetches'[k].pc = "resolved" =>
                          /\ files' = sort([j \in 1..Len(fetches[k].docs) |->
                                               WithId(fetches[k].docs[j].data,
                                                      fetches[k].docs[j].id)])
                          /\ alert' = NoAlert
                    /\ fetches'[k].pc = "rejected" =>
                          /\ files' = files
                          /\ alert' = FetchFailed]_vars
    /\ \A k \in 1..MaxFetches : InFlight(k) ~> Ended(k)

C17_Witness ==
    /\ instance = 2 /\ user = otherUid
    /\ mounted /\ ~isLoading
    /\ files # <<>>
    /\ \E k \in MountFetches(fetches, 2) : fetches[k].pc = "resolved"
    /\ \E k \in MountFetches(fetches, 1) : fetches[k].pc = "rejected"

(* ---------------- C21 ---------------- *)

\* C21: while a fetch of the mounted dashboard waits for the answer to its
\* query, the loading flag is up.
C21_LoadingWhileFetching ==
    \A k \in 1..Len(fetches) :
        (fetches[k].pc \in {"getDocs", "answered"} /\ Live(fetches[k].inst) /\ mounted)
            => isLoading

(* ---------------- C22 ---------------- *)

AuthPages == {"login", "signup", "forgot-password"}

\* what App shows follows the identity delivered last: the loading screen and
\* nothing else before the first delivery, an auth page from a delivery of null
\* on, the dashboard only with a user delivered
ShownFollowsIdentity ==
    /\ delivered' = 0 <=> Shown' = "Loading..."
    /\ (delivered' > 0 /\ user' = NoUser) => (Shown' \in AuthPages /\ ~mounted')
    /\ Shown' = "DashboardPage" <=> (delivered' > 0 /\ user' # NoUser)
    /\ (delivered' > delivered /\ user' = NoUser) =>
          /\ Shown' \in AuthPages
          /\ ~mounted' /\ files' = <<>> /\ uploadingFiles' = <<>>

\* the step sends a query, or starts an upload or a delete, or sends the next
\* backend call of one
SendsBackendCall ==
    \/ Len(fetches') > Len(fetches)
    \/ Len(batches') > Len(batches)
    \/ Len(deletes') > Len(deletes)
    \/ \E x \in Pipelines :
          /\ batches'[x[1]].pipes[x[2]].pc # PipeOf(x).pc
          /\ batches'[x[1]].pipes[x[2]].pc \in {"getDownloadURL", "addDoc"}
    \/ \E d \in 1..Len(deletes) :
          deletes'[d].pc # deletes[d].pc /\ deletes'[d].pc = "deleteDoc"

\* C22: App shows the loading screen until the first identity is delivered,
\* an auth page after every delivery of null and the dashboard only while the
\* identity delivered last is a user, whatever the deliveries and the
\* navigations; and a fetch, an upload or a delete goes to the backend only
\* from a step taken with the dashboard shown.
C22_SessionGating ==
    [][/\ ShownFollowsIdentity
       /\ SendsBackendCall => (Shown = "DashboardPage" /\ user # NoUser)]_vars

====
